---- MODULE Spec2Model ----
(***************************************************************************)
(* Model of src/index.js: the three entry points Parser.parseString,       *)
(* Parser.parseURL and Parser.parseFile, the dialect detection, the Atom   *)
(* and RSS normalizers, the field mapper and the podcast overlay.          *)
(*                                                                         *)
(* JavaScript values are modelled as functions from property names to      *)
(* values; a property that is undefined is a key that is not in the        *)
(* DOMAIN.  A text node of the XML tree is S(text), an element with        *)
(* attributes is a function with the key "$" (and "_" for its text), as    *)
(* xml2js builds them; every element name maps to the sequence of its      *)
(* occurrences.                                                            *)
(***************************************************************************)
EXTENDS Integers, Sequences, FiniteSets, TLC

VARIABLES
  pc,            \* position of the call in flight: idle, request, body, readFile, xml2js, done
  options,       \* the options object the caller owns and may pass again
  callOptions,   \* the options object the call in flight uses
  aliased,       \* TRUE when callOptions is the caller's object (options was passed)
  entry,         \* entry point of the call in flight
  xml,           \* the text handed to XML2JS.parseString
  callbacks,     \* arguments of every invocation of the completion callback, in order
  threw,         \* TRUE when an exception escaped instead of a callback
  reqs,          \* HTTP requests issued by the call in flight
  redirs,        \* 3xx responses with a Location header received by the call
  followed,      \* redirects followed by the call
  startCount,    \* options.__redirectCount || 0 at the top-level parseURL call
  lastStatus,    \* status code of the last response
  lastLocation,  \* whether the last response carried a Location header
  selected       \* the branch of dialect detection the call took

vars == <<pc, options, callOptions, aliased, entry, xml, callbacks, threw,
          reqs, redirs, followed, startCount, lastStatus, lastLocation, selected>>

\* Largest maxRedirects the caller configures.
MaxN == 2
\* Largest number of redirect responses the servers send to one call.
MaxHops == 4
\* Largest number of items or entries in a document.
MaxItems == 2

----------------------------------------------------------------------------
\* JavaScript objects

Has(o, k) == k \in DOMAIN o

Put(o, k, v) == (k :> v) @@ o

EmptyObject == <<>>

\* A text node.
S(s) == ("#text" :> s)

\* An element that has attributes and text.
A(t, a) == ("_" :> t) @@ ("$" :> a)

\* An element that has only attributes.
E(a) == ("$" :> a)

\* The value null.
Null == ("#null" :> "null")

IsString(v) == DOMAIN v = {"#text"}

\* JavaScript truthiness of a value read from the tree: the empty string and
\* null are falsy, every object is truthy.
Truthy(v) == v # S("") /\ v # Null

\* a || b
Or(a, b) == IF Truthy(a) THEN a ELSE b

\* The result of a call that may throw.
Return(v) == [threw |-> FALSE, value |-> v]

Throw == [threw |-> TRUE]

----------------------------------------------------------------------------
\* Library functions, by their value on the strings of the documents below

\* String.prototype.trim
Trim(s) ==
  CASE s = " Thu, 02 Jan 2020 03:04:05 GMT " -> "Thu, 02 Jan 2020 03:04:05 GMT"
    [] s = "Hello & world " -> "Hello & world"
    [] OTHER -> s

\* moment(s).format(RFC3339) on a host in UTC: a string moment cannot parse
\* gives an invalid moment, and format() of an invalid moment returns the
\* string "Invalid date"; neither call throws.
MomentFormat(s) ==
  CASE s = "Thu, 02 Jan 2020 03:04:05 GMT" -> "2020-01-02T03:04:05+00:00"
    [] s = "2020-01-02T05:04:05+02:00" -> "2020-01-02T03:04:05+00:00"
    [] s = "2021-06-07T08:09:10Z" -> "2021-06-07T08:09:10+00:00"
    [] OTHER -> "Invalid date"

\* moment.utc(s).format(RFC3339)
MomentUtcFormat(s) == MomentFormat(s)

\* String.prototype.indexOf('2')
IndexOf2(s) ==
  CASE s = "2.0" -> 0
    [] s = "0.92" -> 3
    [] OTHER -> -1

\* XML2JS.Builder(...).buildObject(content) with rootName 'div', headless
BuildObject(content) ==
  IF content = E(("type" :> "xhtml")) THEN "<div type=\"xhtml\"/>" ELSE "<div/>"

stripHtml(str) ==
  CASE str = "<p>Hello &amp; <b>world</b> </p>" -> "Hello &amp; world "
    [] str = "<div type=\"xhtml\"/>" -> ""
    [] str = "<div/>" -> ""
    [] OTHER -> str

\* Entities.decode
EntitiesDecode(str) ==
  CASE str = "Hello &amp; world " -> "Hello & world "
    [] OTHER -> str

getSnippet(str) == S(Trim(EntitiesDecode(stripHtml(str["#text"]))))

getContent(content) ==
  IF Has(content, "_") THEN S(content["_"])
  ELSE IF ~IsString(content) THEN S(BuildObject(content))
  ELSE content

RFC3339 == "YYYY-MM-DDTHH:mm:ssZ"

----------------------------------------------------------------------------
\* Field declarations: a bare name f is the pair <<f, f>>

Bare(f) == <<f, f>>

FEED_FIELDS == <<
  <<"author", "creator">>, <<"dc:publisher", "publisher">>,
  <<"dc:creator", "creator">>, <<"dc:source", "source">>,
  <<"dc:title", "title">>, <<"dc:type", "type">>,
  Bare("title"), Bare("description"), Bare("author"), Bare("pubDate"),
  Bare("webMaster"), Bare("managingEditor"), Bare("generator"), Bare("link") >>

ITEM_FIELDS == <<
  <<"author", "creator">>, <<"dc:creator", "creator">>, <<"dc:date", "date">>,
  <<"dc:language", "language">>, <<"dc:rights", "rights">>,
  <<"dc:source", "source">>, <<"dc:title", "title">>,
  Bare("title"), Bare("link"), Bare("pubDate"), Bare("author"),
  Bare("content:encoded"), Bare("enclosure"), Bare("dc:creator"),
  Bare("dc:date") >>

mapItunesField(f) == <<"itunes:" \o f, f>>

PODCAST_FEED_FIELDS ==
  << mapItunesField("author"), mapItunesField("subtitle"),
     mapItunesField("summary"), mapItunesField("explicit") >>

PODCAST_ITEM_FIELDS ==
  << mapItunesField("author"), mapItunesField("subtitle"),
     mapItunesField("summary"), mapItunesField("explicit"),
     mapItunesField("duration"), mapItunesField("image") >>

\* copyFromXML(xml, dest, fields): the destination after the copy
RECURSIVE copyFromXML(_, _, _)
copyFromXML(node, dest, fields) ==
  IF fields = <<>> THEN dest
  ELSE LET from == Head(fields)[1]
           to == Head(fields)[2]
       IN copyFromXML(node,
                      IF Has(node, from) THEN Put(dest, to, node[from][1]) ELSE dest,
                      Tail(fields))

----------------------------------------------------------------------------
\* Normalizers

\* _get(node, 'k[0]', null)
Get0(node, k) == IF Has(node, k) THEN node[k][1] ELSE Null

\* if (cond) o[k] = v
PutIf(cond, o, k, v) == IF cond THEN Put(o, k, v) ELSE o

\* callback(err)
CbErr(e) == [err |-> e]

\* callback(null, data)
CbOk(d) == [err |-> "null", data |-> d]

\* What a call of the XML2JS callback leaves: the options, and either one
\* invocation of the completion callback with the feed or an escaped exception
Complete(opts, res) ==
  IF res.threw THEN [threw |-> TRUE, options |-> opts, callbacks |-> <<>>]
  ELSE [threw |-> FALSE, options |-> opts, callbacks |-> <<CbOk(res.value)>>]

\* var title = node || ''; if (title._) title = title._
AtomTitle(node) ==
  IF Has(node, "_") /\ node["_"] # "" THEN S(node["_"]) ELSE node

HasSome(node, k) == Has(node, k) /\ Len(node[k]) > 0

\* One entry of an Atom feed; Throw when a property of undefined is read.
parseAtomEntry(e) ==
  LET i1 == PutIf(Has(e, "title") /\ Truthy(AtomTitle(e["title"][1])),
                  EmptyObject, "title", AtomTitle(e["title"][1]))
      i2 == PutIf(HasSome(e, "link") /\ Has(e["link"][1]["$"], "href"),
                  i1, "url", S(e["link"][1]["$"]["href"]))
      i3 == PutIf(HasSome(e, "updated"),
                  i2, "date_published", S(MomentUtcFormat(e["updated"][1]["#text"])))
      i4 == PutIf(HasSome(e, "author"),
                  i3, "author", [name |-> e["author"][1]["name"][1]])
      i5 == PutIf(HasSome(e, "content"),
                  i4, "content_html", getContent(e["content"][1]))
      i6 == PutIf(Has(e, "id"), i5, "id", e["id"][1])
  IN IF HasSome(e, "link") /\ ~Has(e["link"][1], "$") THEN Throw
     ELSE IF HasSome(e, "author") /\ ~Has(e["author"][1], "name") THEN Throw
     ELSE Return(i6)

\* A sequence of results, as the result of the sequence
Cons(first, rest) ==
  IF first.threw \/ rest.threw THEN Throw
  ELSE Return(<<first.value>> \o rest.value)

RECURSIVE parseAtomEntries(_)
parseAtomEntries(entries) ==
  IF entries = <<>> THEN Return(<<>>)
  ELSE Cons(parseAtomEntry(Head(entries)), parseAtomEntries(Tail(entries)))

\* json.items after the loop over the entries
WithItems(json, items) ==
  IF items.threw THEN Throw ELSE Return(Put(json, "items", items.value))

\* The feed parseAtomFeed builds from the links and the title
AtomFeedFields(feed, links) ==
  LET j1 == PutIf(Len(links) >= 1 /\ Has(links[1]["$"], "href"),
                  [version |-> "1.0.0", items |-> <<>>],
                  "home_page_url", S(links[1]["$"]["href"]))
      j2 == PutIf(Len(links) >= 2 /\ Has(links[2]["$"], "href"),
                  j1, "feed_url", S(links[2]["$"]["href"]))
  IN PutIf(Has(feed, "title") /\ Truthy(AtomTitle(feed["title"][1])),
           j2, "title", AtomTitle(feed["title"][1]))

\* parseAtomFeed on the feed element and its links
AtomFeed(feed, links) ==
  IF \E i \in 1..2 : i <= Len(links) /\ ~Has(links[i], "$") THEN Throw
  ELSE WithItems(AtomFeedFields(feed, links),
                 parseAtomEntries(IF Has(feed, "entry") THEN feed["entry"] ELSE <<>>))

\* parseAtomFeed(xmlObj, options, callback): the callback invocations and
\* whether an exception escaped
parseAtomFeed(xmlObj, opts) ==
  Complete(opts, AtomFeed(xmlObj["feed"],
                          IF Has(xmlObj["feed"], "link") THEN xmlObj["feed"]["link"] ELSE <<>>))

\* if (date) { try { ... moment(date.trim()).format(RFC3339) } catch (e) {} }:
\* date.trim is not a function when date is not a string, and the catch
\* ignores it
WithDate(jsonItem, date) ==
  IF Truthy(date) /\ IsString(date)
  THEN Put(jsonItem, "date_published", S(MomentFormat(Trim(date["#text"]))))
  ELSE jsonItem

\* _get(item, 'guid[0]._', null)
GuidText(item) ==
  IF Has(item["guid"][1], "_") THEN S(item["guid"][1]["_"]) ELSE Null

\* The body of items.forEach in parseRSS: the normalized item
parseRSSItem(item) ==
  LET enc == PutIf(Has(item, "enclosure") /\ Has(item["enclosure"][1], "$"),
                   PutIf(Has(item, "enclosure") /\ Has(item["enclosure"][1], "$"),
                         EmptyObject, "enclosure", item["enclosure"][1]["$"]),
                   "attachments", item["enclosure"][1]["$"])
      html == PutIf(Has(item, "description"),
                    enc, "content_html", getContent(item["description"][1]))
      desc == PutIf(Has(item, "description"),
                    html, "summary", getSnippet(getContent(item["description"][1])))
      ttl == PutIf(Has(item, "title"), desc, "title", item["title"][1])
      lnk == PutIf(Has(item, "link"), ttl, "url", item["link"][1])
      gid == PutIf(Has(item, "guid"), lnk, "id", Or(GuidText(item), Get0(item, "guid")))
      tags == PutIf(Has(item, "category"), gid, "tags", item["category"])
  IN WithDate(tags,
              Or(Get0(item, "dc:date"),
                 Or(Get0(item, "dcterms:issued"), Get0(item, "pubDate"))))

RECURSIVE parseRSSItems(_)
parseRSSItems(items) ==
  IF items = <<>> THEN <<>>
  ELSE <<parseRSSItem(Head(items))>> \o parseRSSItems(Tail(items))

\* options.customFields = options.customFields || {}
WithCustomFields(opts) ==
  IF Has(opts, "customFields") THEN opts ELSE Put(opts, "customFields", EmptyObject)

itemFields(opts) ==
  ITEM_FIELDS \o (IF Has(opts["customFields"], "item") THEN opts["customFields"]["item"] ELSE <<>>)

feedFields(opts) ==
  FEED_FIELDS \o (IF Has(opts["customFields"], "feed") THEN opts["customFields"]["feed"] ELSE <<>>)

\* _get(channel, '$.rdf:about', null)
RdfAbout(channel) ==
  IF Has(channel, "$") /\ Has(channel["$"], "rdf:about")
  THEN S(channel["$"]["rdf:about"]) ELSE Null

\* const feed_url = _get(channel, 'atom:link.$.href', null) || _get(channel,
\* '$.rdf:about', null): channel['atom:link'] is a sequence, which has no
\* property '$', so the first operand is null
FeedUrl(channel) == Or(Null, RdfAbout(channel))

\* The feed parseRSS passes to its callback, or Throw.  itemFields and
\* feedFields are computed and never read.
RSSFeed(channel, items) ==
  IF ~Has(channel, "title") \/ ~Has(channel, "link") THEN Throw
  ELSE IF Has(channel, "atom:link") /\ ~Has(channel["atom:link"][1], "$") THEN Throw
  ELSE Return(
    Put(PutIf(Has(channel, "atom:link"),
              [version |-> "1.0.0", title |-> channel["title"][1],
               home_page_url |-> channel["link"][1], feed_url |-> FeedUrl(channel),
               items |-> <<>>],
              "feed_url", S(channel["atom:link"][1]["$"]["href"])),
        "items", parseRSSItems(items)))

\* The options parseRSS leaves with the result of RSSFeed
WithOptions(opts, res) ==
  IF res.threw THEN [threw |-> TRUE, options |-> opts]
  ELSE [threw |-> FALSE, options |-> opts, json |-> res.value]

\* parseRSS(channel, items, options, callback) up to its call of callback
parseRSS(channel, items, opts) ==
  WithOptions(WithCustomFields(opts), RSSFeed(channel, items))

\* The body of items.forEach in decorateItunes: the entry with its itunes block
decorateEntry(item, e) ==
  Put(e, "itunes",
      PutIf(/\ Has(item, "itunes:image")
            /\ Has(item["itunes:image"][1], "$")
            /\ Has(item["itunes:image"][1]["$"], "href"),
            copyFromXML(item, EmptyObject, PODCAST_ITEM_FIELDS),
            "image", S(item["itunes:image"][1]["$"]["href"])))

RECURSIVE decorateEntries(_, _)
decorateEntries(items, entries) ==
  IF items = <<>> THEN entries
  ELSE <<decorateEntry(Head(items), Head(entries))>>
         \o decorateEntries(Tail(items), Tail(entries))

\* The owner record decorateItunes builds from channel['itunes:owner'][0]
ItunesOwner(ownerNode) ==
  PutIf(Has(ownerNode, "itunes:email"),
        PutIf(Has(ownerNode, "itunes:name"), EmptyObject, "name", ownerNode["itunes:name"][1]),
        "email", ownerNode["itunes:email"][1])

\* json.feed.itunes before the declared podcast feed fields are copied
ItunesBlock(channel) ==
  PutIf(Has(channel, "itunes:owner"),
        PutIf(Has(channel, "itunes:owner") /\ Has(channel, "itunes:image"),
              EmptyObject, "image", S(channel["itunes:image"][1]["$"]["href"])),
        "owner", ItunesOwner(channel["itunes:owner"][1]))

\* json.feed after the overlay
DecoratedFeed(feed, channel, items, entries) ==
  IF Len(entries) < Len(items) THEN Throw   \* entry is undefined
  ELSE Return(Put(Put(feed, "itunes",
                      copyFromXML(channel, ItunesBlock(channel), PODCAST_FEED_FIELDS)),
                  "entries", decorateEntries(items, entries)))

\* json with json.feed replaced
WithFeed(json, res) ==
  IF res.threw THEN Throw ELSE Return(Put(json, "feed", res.value))

\* decorateItunes(json, channel): json after the overlay, or Throw.  It
\* writes json.feed.itunes and json.feed.entries[index].itunes.
decorateItunes(json, channel) ==
  IF ~Has(json, "feed") THEN Throw    \* json.feed is undefined
  ELSE WithFeed(json,
         DecoratedFeed(json["feed"], channel,
                       IF Has(channel, "item") THEN channel["item"] ELSE <<>>,
                       IF Has(json["feed"], "entries") THEN json["feed"]["entries"] ELSE <<>>))

\* parseRSS1(xmlObj, options, callback)
parseRSS1Callback(r) ==
  IF r.threw THEN Complete(r.options, Throw) ELSE Complete(r.options, Return(r.json))

parseRSS1(xmlObj, opts) ==
  parseRSS1Callback(
    parseRSS(xmlObj["rdf:RDF"]["channel"][1],
             IF Has(xmlObj["rdf:RDF"], "item") THEN xmlObj["rdf:RDF"]["item"] ELSE <<>>,
             opts))

\* The callback parseRSS2 gives to parseRSS, on what parseRSS leaves
parseRSS2Callback(xmlObj, channel, r) ==
  IF r.threw THEN Complete(r.options, Throw)
  ELSE IF Has(xmlObj["rss"]["$"], "xmlns:itunes")
  THEN Complete(r.options, decorateItunes(r.json, channel))
  ELSE Complete(r.options, Return(r.json))

\* channel.item || []
ChannelItems(channel) == IF Has(channel, "item") THEN channel["item"] ELSE <<>>

\* parseRSS2(xmlObj, options, callback)
parseRSS2(xmlObj, opts) ==
  parseRSS2Callback(xmlObj, xmlObj["rss"]["channel"][1],
    parseRSS(xmlObj["rss"]["channel"][1], ChannelItems(xmlObj["rss"]["channel"][1]), opts))

\* The branch the callback of XML2JS.parseString takes on a parsed tree:
\* "throw" when result.rss.$ is undefined and .version is read from it.
Detect(result) ==
  IF Has(result, "feed") THEN "atom"
  ELSE IF Has(result, "rss") /\ ~Has(result["rss"], "$") THEN "throw"
  ELSE IF /\ Has(result, "rss")
          /\ Has(result["rss"]["$"], "version")
          /\ result["rss"]["$"]["version"] # ""
          /\ IndexOf2(result["rss"]["$"]["version"]) = 0 THEN "rss2"
  ELSE IF Has(result, "rdf:RDF") THEN "rss1"
  ELSE "unrecognized"

\* The branch sel, run on the parsed tree
Dispatch(sel, result, opts) ==
  CASE sel = "atom" -> parseAtomFeed(result, opts)
    [] sel = "rss2" -> parseRSS2(result, opts)
    [] sel = "rss1" -> parseRSS1(result, opts)
    [] sel = "throw" -> Complete(opts, Throw)
    [] OTHER -> [threw |-> FALSE, options |-> opts,
                 callbacks |-> <<CbErr("Feed not recognized as RSS 1 or 2.")>>]

Selected(sel, out) ==
  [threw |-> out.threw, options |-> out.options, selected |-> sel,
   callbacks |-> out.callbacks]

\* The callback Parser.parseString gives to XML2JS.parseString, run on the
\* outcome of the adapter for the text x: XML2JS reports a syntax error, and
\* a text that is undefined, as err; an exception thrown by the callback on
\* a parsed tree escapes.
parseStringCallback(x, opts) ==
  IF x.kind # "xml"
  THEN [threw |-> FALSE, options |-> opts, selected |-> "none",
        callbacks |-> <<CbErr(IF x.kind = "syntaxError" THEN "XmlSyntaxError" ELSE "TypeError")>>]
  ELSE Selected(Detect(x.result), Dispatch(Detect(x.result), x.result, opts))

----------------------------------------------------------------------------
\* Documents

ChannelBase ==
  ("description" :> <<S("About")>>) @@ ("author" :> <<S("Ann")>>)
    @@ ("dc:creator" :> <<S("Bob")>>) @@ ("itunes:author" :> <<S("Cy")>>)

\* feedSource: which of atom:link and the rdf:about attribute the channel has
Channel(hasTitle, hasLink, feedSource) ==
  ChannelBase
    @@ (IF hasTitle THEN ("title" :> <<S("T"), S("T2")>>) ELSE EmptyObject)
    @@ (IF hasLink THEN ("link" :> <<S("http://home")>>) ELSE EmptyObject)
    @@ (IF feedSource \in {"atom", "both"}
        THEN ("atom:link" :> <<E(("href" :> "http://self") @@ ("rel" :> "self"))>>)
        ELSE EmptyObject)
    @@ (IF feedSource \in {"about", "both"}
        THEN ("$" :> ("rdf:about" :> "http://about")) ELSE EmptyObject)

Channels ==
  { Channel(t, l, f) : t \in BOOLEAN, l \in BOOLEAN, f \in {"none", "atom", "about"} }

Item1 ==
  ("title" :> <<S("A")>>) @@ ("link" :> <<S("http://a")>>) @@ ("guid" :> <<S("g1")>>)
    @@ ("description" :> <<S("<p>Hello &amp; <b>world</b> </p>")>>)
    @@ ("dc:date" :> <<S("2020-01-02T05:04:05+02:00")>>)
    @@ ("pubDate" :> <<S(" Thu, 02 Jan 2020 03:04:05 GMT ")>>)
    @@ ("itunes:author" :> <<S("Dee")>>)

Item2 ==
  ("title" :> <<S("B")>>) @@ ("pubDate" :> <<S("not-a-date")>>)
    @@ ("guid" :> <<A("g2", ("isPermaLink" :> "false"))>>)
    @@ ("description" :> <<S("plain")>>)

Item3 ==
  ("pubDate" :> <<A("Thu, 02 Jan 2020 03:04:05 GMT", ("zone" :> "GMT"))>>)
    @@ ("category" :> <<S("x"), S("y")>>)
    @@ ("enclosure" :> <<E(("url" :> "http://mp3") @@ ("type" :> "audio/mpeg"))>>)
    @@ ("description" :> <<E(("type" :> "xhtml"))>>)

ItemPool == {Item1, Item2, Item3}

ItemSeqs == UNION { [1..n -> ItemPool] : n \in 0..MaxItems }

ItemsPart(items) == IF items = <<>> THEN EmptyObject ELSE ("item" :> items)

\* The attributes of the rss root; the first has none and xml2js gives no '$'
RssRoots ==
  { EmptyObject,
    ("$" :> ("xmlns:atom" :> "http://www.w3.org/2005/Atom")),
    ("$" :> ("version" :> "0.91")),
    ("$" :> ("version" :> "0.92")),
    ("$" :> ("version" :> "2.0")),
    ("$" :> (("version" :> "2.0")
             @@ ("xmlns:itunes" :> "http://www.itunes.com/dtds/podcast-1.0.dtd"))) }

Xml(result) == [kind |-> "xml", result |-> result]

RssDoc(r, c, is) == Xml(("rss" :> (r @@ ("channel" :> <<c @@ ItemsPart(is)>>))))

RdfDoc(c, is) == Xml(("rdf:RDF" :> (("channel" :> <<c>>) @@ ItemsPart(is))))

CompleteChannel == Channel(TRUE, TRUE, "none")

\* Every root with every channel and no item, and the RSS 2.0 roots with a
\* complete channel and every sequence of items
RssDocs ==
  { RssDoc(r, c, <<>>) : r \in RssRoots, c \in Channels }
    \cup { RssDoc(r, CompleteChannel, is) :
             r \in { x \in RssRoots : Has(x, "$") /\ Has(x["$"], "version")
                                        /\ x["$"]["version"] = "2.0" },
             is \in ItemSeqs }

RdfDocs ==
  { RdfDoc(c, <<>>) : c \in Channels }
    \cup { RdfDoc(CompleteChannel, is) : is \in ItemSeqs }

Entry1 ==
  ("title" :> <<A("E", ("type" :> "html"))>>)
    @@ ("link" :> <<E(("href" :> "http://e"))>>)
    @@ ("updated" :> <<S("2021-06-07T08:09:10Z")>>)
    @@ ("author" :> <<("name" :> <<S("Eve")>>)>>)
    @@ ("content" :> <<A("<b>c</b>", ("type" :> "html"))>>)
    @@ ("id" :> <<S("urn:1")>>)

Entry2 == ("title" :> <<S("F")>>) @@ ("updated" :> <<S("not-a-date")>>)

EntrySeqs == UNION { [1..n -> {Entry1, Entry2}] : n \in 0..MaxItems }

AtomLinks ==
  { <<>>, <<E(("href" :> "http://home"))>>,
    <<E(("href" :> "http://home")), E(("href" :> "http://self"))>> }

AtomDoc(t, l, es) ==
  Xml(("feed" :>
        ((IF t = <<>> THEN EmptyObject ELSE ("title" :> t))
          @@ (IF l = <<>> THEN EmptyObject ELSE ("link" :> l))
          @@ (IF es = <<>> THEN EmptyObject ELSE ("entry" :> es)))))

AtomDocs ==
  { AtomDoc(t, l, <<>>) :
      t \in {<<>>, <<S("T")>>, <<A("T", ("type" :> "text"))>>}, l \in AtomLinks }
    \cup { AtomDoc(<<S("T")>>, <<>>, es) : es \in EntrySeqs }

HtmlDoc == Xml(("html" :> ("body" :> <<S("hi")>>)))

SyntaxErrorDoc == [kind |-> "syntaxError"]

\* The contents FS.readFile passes when the read fails
UndefinedText == [kind |-> "undefined"]

NoXml == [kind |-> "none"]

Docs == RssDocs \cup RdfDocs \cup AtomDocs \cup {HtmlDoc, SyntaxErrorDoc}

\* The texts a server or a file delivers
FetchedDocs ==
  { RssDoc(r, CompleteChannel, <<>>) : r \in RssRoots }
    \cup { RdfDoc(CompleteChannel, <<>>), AtomDoc(<<S("T")>>, <<>>, <<>>),
           HtmlDoc, SyntaxErrorDoc }

----------------------------------------------------------------------------
\* Options

CustomFields ==
  [feed |-> << <<"description", "about">> >>, item |-> << Bare("itunes:author") >>]

\* The options objects a caller constructs
FreshOptions ==
  {EmptyObject} \cup { ("maxRedirects" :> n) : n \in 0..MaxN }
    \cup { ("customFields" :> CustomFields) }

\* options.__redirectCount = options.__redirectCount || 0;
\* if (options.maxRedirects === undefined) options.maxRedirects = 1;
ParseURLEnter(o) ==
  LET o1 == IF Has(o, "__redirectCount") THEN o ELSE Put(o, "__redirectCount", 0)
  IN IF Has(o1, "maxRedirects") THEN o1 ELSE Put(o1, "maxRedirects", 1)

RedirectDecisionNoLimit(o) ==
  IF o["maxRedirects"] = 0 THEN "disabled"
  ELSE IF o["__redirectCount"] > o["maxRedirects"] THEN "tooMany"
  ELSE "follow"

\* What the response handler does with a 3xx response that has a Location
RedirectDecision(o) ==
  IF o["maxRedirects"] = 0 THEN "disabled"
  ELSE IF o["__redirectCount"] = o["maxRedirects"] THEN "tooMany"
  ELSE "follow"

StatusError(status) ==
  CASE status = 301 -> "Status code 301"
    [] status = 302 -> "Status code 302"
    [] OTHER -> "Status code"

Statuses == {200, 301, 302}

----------------------------------------------------------------------------
\* The calls

Init ==
  /\ pc = "idle"
  /\ options = EmptyObject
  /\ callOptions = EmptyObject
  /\ aliased = FALSE
  /\ entry = "none"
  /\ xml = NoXml
  /\ callbacks = <<>>
  /\ threw = FALSE
  /\ reqs = 0
  /\ redirs = 0
  /\ followed = 0
  /\ startCount = 0
  /\ lastStatus = 0
  /\ lastLocation = FALSE
  /\ selected = "none"

\* The caller builds a new options object.
NewOptions(o) ==
  /\ pc = "idle"
  /\ options' = o
  /\ UNCHANGED <<pc, callOptions, aliased, entry, xml, callbacks, threw, reqs,
                 redirs, followed, startCount, lastStatus, lastLocation, selected>>

\* Parser.parseString(xml, options, callback), or Parser.parseString(xml, callback)
\* which uses a new empty options object, up to the call of XML2JS.parseString.
CallParseString(d, withOptions) ==
  /\ pc = "idle"
  /\ pc' = "xml2js"
  /\ entry' = "parseString"
  /\ aliased' = withOptions
  /\ callOptions' = IF withOptions THEN options ELSE EmptyObject
  /\ xml' = d
  /\ UNCHANGED <<options, callbacks, threw, reqs, redirs, followed, startCount,
                 lastStatus, lastLocation, selected>>

\* Parser.parseURL(feedUrl, options, callback) up to the request it sends.
CallParseURL(withOptions) ==
  /\ pc = "idle"
  /\ LET o == ParseURLEnter(IF withOptions THEN options ELSE EmptyObject)
     IN /\ callOptions' = o
        /\ options' = IF withOptions THEN o ELSE options
        /\ startCount' = o["__redirectCount"]
  /\ aliased' = withOptions
  /\ entry' = "parseURL"
  /\ reqs' = 1
  /\ pc' = "request"
  /\ UNCHANGED <<xml, callbacks, threw, redirs, followed, lastStatus,
                 lastLocation, selected>>

\* The response handler on a 3xx response with a Location header: it fails
\* the call, or counts the redirect and calls Parser.parseURL again, which
\* sends the next request.
RedirectResponse(status) ==
  /\ pc = "request"
  /\ status >= 300 /\ status < 400
  /\ redirs < MaxHops
  /\ redirs' = redirs + 1
  /\ lastStatus' = status
  /\ lastLocation' = TRUE
  /\ LET decision == RedirectDecision(callOptions)
         o == ParseURLEnter(Put(callOptions, "__redirectCount",
                                callOptions["__redirectCount"] + 1))
     IN IF decision = "follow"
        THEN /\ callOptions' = o
             /\ options' = IF aliased THEN o ELSE options
             /\ followed' = followed + 1
             /\ reqs' = reqs + 1
             /\ UNCHANGED <<pc, callbacks>>
        ELSE /\ callbacks' = Append(callbacks,
                 CbErr(IF decision = "disabled" THEN StatusError(status)
                       ELSE "Too many redirects"))
             /\ pc' = "done"
             /\ UNCHANGED <<options, callOptions, followed, reqs>>
  /\ UNCHANGED <<aliased, entry, xml, threw, startCount, selected>>

\* The response handler on any other response: it reads the body.
OtherResponse(status, location) ==
  /\ pc = "request"
  /\ ~(status >= 300 /\ status < 400 /\ location)
  /\ lastStatus' = status
  /\ lastLocation' = location
  /\ pc' = "body"
  /\ UNCHANGED <<options, callOptions, aliased, entry, xml, callbacks, threw,
                 reqs, redirs, followed, startCount, selected>>

\* res.on('end'): Parser.parseString(xml, options, callback)
ResponseEnd(d) ==
  /\ pc = "body"
  /\ xml' = d
  /\ pc' = "xml2js"
  /\ UNCHANGED <<options, callOptions, aliased, entry, callbacks, threw, reqs,
                 redirs, followed, startCount, lastStatus, lastLocation, selected>>

\* req.on('error', callback)
RequestError ==
  /\ pc = "request"
  /\ callbacks' = Append(callbacks, CbErr("TransportError"))
  /\ pc' = "done"
  /\ UNCHANGED <<options, callOptions, aliased, entry, xml, threw, reqs, redirs,
                 followed, startCount, lastStatus, lastLocation, selected>>

\* Parser.parseFile(file, options, callback) up to FS.readFile
CallParseFile(withOptions) ==
  /\ pc = "idle"
  /\ pc' = "readFile"
  /\ entry' = "parseFile"
  /\ aliased' = withOptions
  /\ callOptions' = IF withOptions THEN options ELSE EmptyObject
  /\ UNCHANGED <<options, xml, callbacks, threw, reqs, redirs, followed,
                 startCount, lastStatus, lastLocation, selected>>

\* The callback of FS.readFile: err is not read, contents go to parseString
ReadFileDone(contents) ==
  /\ pc = "readFile"
  /\ xml' = contents
  /\ pc' = "xml2js"
  /\ UNCHANGED <<options, callOptions, aliased, entry, callbacks, threw, reqs,
                 redirs, followed, startCount, lastStatus, lastLocation, selected>>

\* The callback of XML2JS.parseString
XmlParsed ==
  /\ pc = "xml2js"
  /\ LET out == parseStringCallback(xml, callOptions)
     IN /\ callOptions' = out.options
        /\ options' = IF aliased THEN out.options ELSE options
        /\ callbacks' = callbacks \o out.callbacks
        /\ threw' = out.threw
        /\ selected' = out.selected
  /\ pc' = "done"
  /\ UNCHANGED <<aliased, entry, xml, reqs, redirs, followed, startCount,
                 lastStatus, lastLocation>>

\* The call is over; the caller is free to make the next one.
Finish ==
  /\ pc = "done"
  /\ pc' = "idle"
  /\ callOptions' = EmptyObject
  /\ aliased' = FALSE
  /\ entry' = "none"
  /\ xml' = NoXml
  /\ callbacks' = <<>>
  /\ threw' = FALSE
  /\ reqs' = 0
  /\ redirs' = 0
  /\ followed' = 0
  /\ startCount' = 0
  /\ lastStatus' = 0
  /\ lastLocation' = FALSE
  /\ selected' = "none"
  /\ UNCHANGED options

Next ==
  \/ \E o \in FreshOptions : NewOptions(o)
  \/ \E d \in Docs, w \in BOOLEAN : CallParseString(d, w)
  \/ \E w \in BOOLEAN : CallParseURL(w)
  \/ \E s \in Statuses : RedirectResponse(s)
  \/ \E s \in Statuses, l \in BOOLEAN : OtherResponse(s, l)
  \/ \E d \in FetchedDocs : ResponseEnd(d)
  \/ RequestError
  \/ \E w \in BOOLEAN : CallParseFile(w)
  \/ \E c \in FetchedDocs \cup {UndefinedText} : ReadFileDone(c)
  \/ XmlParsed
  \/ Finish

Spec == Init /\ [][Next]_vars

----------------------------------------------------------------------------
\* Properties

\* The feed the callback received, when the call has delivered one
Delivered == pc = "done" /\ callbacks # <<>> /\ Has(callbacks[1], "data")

Data == callbacks[1].data

\* The channel and the raw items of the RSS document the call parsed
RawChannel ==
  IF Has(xml.result, "rss") THEN xml.result["rss"]["channel"][1]
  ELSE xml.result["rdf:RDF"]["channel"][1]

RawItems ==
  IF Has(xml.result, "rss")
  THEN (IF Has(RawChannel, "item") THEN RawChannel["item"] ELSE <<>>)
  ELSE (IF Has(xml.result["rdf:RDF"], "item") THEN xml.result["rdf:RDF"]["item"] ELSE <<>>)

RedirectErrors == {StatusError(s) : s \in Statuses} \cup {"Too many redirects"}

\* C1: every call of parseString, parseURL or parseFile invokes the
\* completion callback exactly once, on every outcome: never twice, and a
\* call that is over has invoked it and let no exception escape.
C1_CallbackExactlyOnce ==
  /\ Len(callbacks) <= 1
  /\ pc = "done" => (Len(callbacks) = 1 /\ ~threw)

\* C2: a parseURL call that starts with a redirect count of zero and
\* maxRedirects = N follows at most N redirect responses, each by exactly one
\* new request; the (N+1)-th redirect response ends the call with the
\* redirect error (status code error when N = 0, too many redirects
\* otherwise) and no further request; no redirect error comes earlier.
C2_RedirectBound ==
  (entry = "parseURL" /\ startCount = 0) =>
    LET N == callOptions["maxRedirects"]
    IN /\ redirs <= N + 1
       /\ followed = (IF redirs <= N THEN redirs ELSE N)
       /\ reqs = followed + 1
       /\ redirs = N + 1 =>
            /\ pc = "done"
            /\ callbacks = <<CbErr(IF N = 0 THEN StatusError(lastStatus)
                                   ELSE "Too many redirects")>>
       /\ redirs <= N => \A i \in 1..Len(callbacks) : callbacks[i].err \notin RedirectErrors

\* C2 witness: with maxRedirects = 1 one redirect was followed and the second
\* failed the call after two requests.
C2_Witness ==
  /\ entry = "parseURL" /\ startCount = 0
  /\ callOptions["maxRedirects"] = 1
  /\ redirs = 2 /\ followed = 1 /\ reqs = 2
  /\ pc = "done"
  /\ callbacks = <<CbErr("Too many redirects")>>

\* C3: every parseURL call is independent of earlier calls: it starts with a
\* redirect count of zero, and it fails with too many redirects only after it
\* has itself followed maxRedirects redirects.
C3_CallsIndependent ==
  entry = "parseURL" =>
    /\ startCount = 0
    /\ \A i \in 1..Len(callbacks) :
         callbacks[i].err = "Too many redirects" => followed = callOptions["maxRedirects"]

\* The document has no feed root, no rdf:RDF root and no rss root whose
\* version attribute starts with '2'.
MatchesNoSignature(result) ==
  /\ ~Has(result, "feed")
  /\ ~Has(result, "rdf:RDF")
  /\ ~(/\ Has(result, "rss")
       /\ Has(result["rss"], "$")
       /\ Has(result["rss"]["$"], "version")
       /\ IndexOf2(result["rss"]["$"]["version"]) = 0)

\* C4: a parsed document that matches none of the three dialect signatures
\* yields the unrecognized-format error through the callback, with no feed
\* object and no other failure.
C4_UnrecognizedAlwaysErrors ==
  (pc = "done" /\ xml.kind = "xml" /\ MatchesNoSignature(xml.result)) =>
    /\ ~threw
    /\ callbacks = <<CbErr("Feed not recognized as RSS 1 or 2.")>>

HasPodcastBlock(data) ==
  \/ Has(data, "itunes")
  \/ Has(data, "feed") /\ Has(data["feed"], "itunes")

\* C5: after parsing an RSS 2.0 document with a complete channel, the parse
\* succeeds, the result has a podcast block exactly when the rss root
\* declares the itunes namespace, and then the normalized item at each
\* position carries the podcast sub-block of the raw item at that position.
C5_PodcastOverlay ==
  (/\ pc = "done" /\ selected = "rss2"
   /\ Has(RawChannel, "title") /\ Has(RawChannel, "link")) =>
    /\ Delivered
    /\ HasPodcastBlock(Data) <=> Has(xml.result["rss"]["$"], "xmlns:itunes")
    /\ Has(xml.result["rss"]["$"], "xmlns:itunes") =>
         /\ Len(Data["items"]) = Len(RawItems)
         /\ \A i \in 1..Len(RawItems) :
              /\ Has(Data["items"][i], "itunes")
              /\ Data["items"][i]["itunes"]
                   = decorateEntry(RawItems[i], EmptyObject)["itunes"]

\* C6: every feed the callback receives has the version literal and an items
\* sequence, and none of title, home_page_url, feed_url is present with a
\* null placeholder.
C6_NoPlaceholders ==
  \A i \in 1..Len(callbacks) :
    Has(callbacks[i], "data") =>
      LET data == callbacks[i].data
      IN /\ Has(data, "version") /\ data["version"] = "1.0.0"
         /\ Has(data, "items")
         /\ \A k \in {"title", "home_page_url", "feed_url"} :
              Has(data, k) => data[k] # Null

\* C7: in RSS normalization every built-in and custom feed declaration whose
\* source key is on the channel has its destination on the normalized feed,
\* with the value the field mapper gives, and likewise for every item.
C7_FieldsCopied ==
  (Delivered /\ selected \in {"rss1", "rss2"}) =>
    LET feedCopy == copyFromXML(RawChannel, EmptyObject, feedFields(callOptions))
    IN /\ \A k \in DOMAIN feedCopy : Has(Data, k) /\ Data[k] = feedCopy[k]
       /\ \A i \in 1..Len(RawItems) :
            LET itemCopy == copyFromXML(RawItems[i], EmptyObject, itemFields(callOptions))
            IN \A k \in DOMAIN itemCopy :
                 Has(Data["items"][i], k) /\ Data["items"][i][k] = itemCopy[k]

\* C8: in parseURL a 3xx response without a Location header fails the call:
\* the body is not handed to the parser and the callback receives an error.
C8_NoLocationFails ==
  (/\ entry = "parseURL" /\ lastStatus >= 300 /\ lastStatus < 400 /\ ~lastLocation
   /\ pc \in {"xml2js", "done"}) =>
    /\ xml = NoXml
    /\ pc = "done"
    /\ Len(callbacks) = 1 /\ ~Has(callbacks[1], "data")

\* The date string RSS normalization selects for an item
SelectedDate(item) ==
  Or(Get0(item, "dc:date"), Or(Get0(item, "dcterms:issued"), Get0(item, "pubDate")))

\* C9: an RSS item whose selected date string is unparseable has no
\* date_published on its normalized item, and the parse still succeeds.
C9_BadDateOmitted ==
  (pc = "done" /\ selected \in {"rss1", "rss2"} /\ xml.kind = "xml"
   /\ Has(RawChannel, "title") /\ Has(RawChannel, "link")
   /\ (selected = "rss2" => ~Has(xml.result["rss"]["$"], "xmlns:itunes"))) =>
    /\ Delivered
    /\ \A i \in 1..Len(RawItems) :
         LET d == SelectedDate(RawItems[i])
         IN (IsString(d) /\ Truthy(d) /\ MomentFormat(Trim(d["#text"])) = "Invalid date")
              => ~Has(Data["items"][i], "date_published")

\* The dialect the decision order gives a parsed document
ExpectedDialect(result) ==
  IF Has(result, "feed") THEN "atom"
  ELSE IF /\ Has(result, "rss")
          /\ Has(result["rss"], "$")
          /\ Has(result["rss"]["$"], "version")
          /\ IndexOf2(result["rss"]["$"]["version"]) = 0 THEN "rss2"
  ELSE IF Has(result, "rdf:RDF") THEN "rss1"
  ELSE "unrecognized"

\* C10: for every parsed document dialect detection selects exactly the
\* normalizer (or the unrecognized-format error) of the first matching rule,
\* and an RSS 1.0 document never gets the podcast overlay.
C10_FirstMatchWins ==
  (pc = "done" /\ xml.kind = "xml") =>
    /\ selected = ExpectedDialect(xml.result)
    /\ (selected = "rss1" /\ Delivered) => ~HasPodcastBlock(Data)

====
